---- MODULE Spec2Model ----
(***************************************************************************)
(* A model of the chess rules engine of ChessEngine.py: the GameState      *)
(* object (board, turn flag, move history, king-location cache, terminal   *)
(* flags), the Move value, the per-piece move generators, the attack test  *)
(* and the legality filter.                                                *)
(***************************************************************************)
EXTENDS Integers, Sequences, FiniteSets, TLC

VARIABLES
    board,                \* GameState.board: row -> column -> piece code
    white_to_move,        \* GameState.white_to_move
    move_log,             \* GameState.move_log: sequence of Move records
    white_king_location,  \* GameState.white_king_location: <<row, col>>
    black_king_location,  \* GameState.black_king_location: <<row, col>>
    check_mate,           \* GameState.check_mate
    stale_mate,           \* GameState.stale_mate
    last_call,            \* the operation that ran last
    moves,                \* the list the last get_valid_moves() returned
    listed,               \* the caller has asked for the legal moves of this position
    valid_moves,          \* ChessGame.main: the list the front end matches clicks against
    is_move_made,         \* ChessGame.main: valid_moves is to be recomputed
    game_over,            \* ChessGame.main: clicks are ignored
    selected_square,      \* ChessGame.main: << >> or the square clicked last
    clicked_positions     \* ChessGame.main: the squares clicked so far

vars == <<board, white_to_move, move_log, white_king_location,
          black_king_location, check_mate, stale_mate, last_call, moves,
          listed, valid_moves, is_move_made, game_over, selected_square,
          clicked_positions>>

\* the local variables of ChessGame.main
front == <<valid_moves, is_move_made, game_over, selected_square,
           clicked_positions>>

\* the variables that record the calls made on the engine directly
direct == <<last_call, moves, listed>>

-----------------------------------------------------------------------------
(* Piece codes *)

WhitePieces == {"wp", "wR", "wN", "wB", "wQ", "wK"}

BlackPieces == {"bp", "bR", "bN", "bB", "bQ", "bK"}

\* piece[0]: the side character of a piece code ("-" for the empty "--")
Side(piece) ==
    IF piece \in WhitePieces THEN "w"
    ELSE IF piece \in BlackPieces THEN "b"
    ELSE "-"

\* piece[1]: the type character of a piece code
Kind(piece) ==
    CASE piece \in {"wp", "bp"} -> "p"
      [] piece \in {"wR", "bR"} -> "R"
      [] piece \in {"wN", "bN"} -> "N"
      [] piece \in {"wB", "bB"} -> "B"
      [] piece \in {"wQ", "bQ"} -> "Q"
      [] piece \in {"wK", "bK"} -> "K"
      [] OTHER -> "-"

\* piece_moved[0] + "Q": the queen of the side of a piece
\* a variant that leaves the promoted piece what it was
QueenOfKeepsPiece(piece) == piece

QueenOf(piece) == IF Side(piece) = "w" THEN "wQ" ELSE "bQ"

InitialRows ==
    << <<"bR", "bN", "bB", "bQ", "bK", "bB", "bN", "bR">>,
       <<"bp", "bp", "bp", "bp", "bp", "bp", "bp", "bp">>,
       <<"--", "--", "--", "--", "--", "--", "--", "--">>,
       <<"--", "--", "--", "--", "--", "--", "--", "--">>,
       <<"--", "--", "--", "--", "--", "--", "--", "--">>,
       <<"--", "--", "--", "--", "--", "--", "--", "--">>,
       <<"wp", "wp", "wp", "wp", "wp", "wp", "wp", "wp">>,
       <<"wR", "wN", "wB", "wQ", "wK", "wB", "wN", "wR">> >>

\* GameState(): the state a new game starts in
NewGame ==
    [ board               |-> [r \in 0..7 |-> [c \in 0..7 |-> InitialRows[r + 1][c + 1]]],
      white_to_move       |-> TRUE,
      move_log            |-> << >>,
      white_king_location |-> <<7, 4>>,
      black_king_location |-> <<0, 4>>,
      check_mate          |-> FALSE,
      stale_mate          |-> FALSE ]

-----------------------------------------------------------------------------
(* class Move *)

\* Move(start_sq, end_sq, board)
Move(start_sq, end_sq, b) ==
    LET piece_moved == b[start_sq[1]][start_sq[2]]
    IN  [ start_row         |-> start_sq[1],
          start_col         |-> start_sq[2],
          end_row           |-> end_sq[1],
          end_col           |-> end_sq[2],
          piece_moved       |-> piece_moved,
          piece_captured    |-> b[end_sq[1]][end_sq[2]],
          is_pawn_promotion |-> \/ (piece_moved = "wp" /\ end_sq[1] = 0)
                                \/ (piece_moved = "bp" /\ end_sq[1] = 7),
          move_id           |-> <<start_sq[1], start_sq[2], end_sq[1], end_sq[2]>> ]

\* Move.__eq__: equal move_ids, and only between Move objects
\* the attributes of a Move object; isinstance(other, Move)
MoveFields ==
    {"start_row", "start_col", "end_row", "end_col", "piece_moved",
     "piece_captured", "is_pawn_promotion", "move_id"}

IsMove(other) == DOMAIN other = MoveFields

\* a variant that also compares the piece that moves
MoveEqByPiece(a, b) ==
    IF IsMove(b)
    THEN a.move_id = b.move_id /\ a.piece_moved = b.piece_moved
    ELSE FALSE

MoveEq(a, b) == IF IsMove(b) THEN a.move_id = b.move_id ELSE FALSE

-----------------------------------------------------------------------------
(* GameState.make_move / GameState.undo_move *)

\* a variant that leaves the moved piece on its source square as well
MakeMoveKeepsSource(g, move) ==
    [g EXCEPT
        !.board = [g.board EXCEPT ![move.end_row][move.end_col] =
                       IF move.is_pawn_promotion
                       THEN QueenOf(move.piece_moved) ELSE move.piece_moved],
        !.move_log = Append(g.move_log, move),
        !.white_to_move = ~g.white_to_move,
        !.white_king_location =
            IF move.piece_moved = "wK"
            THEN <<move.end_row, move.end_col>> ELSE @,
        !.black_king_location =
            IF move.piece_moved = "bK"
            THEN <<move.end_row, move.end_col>> ELSE @ ]

\* a variant that leaves the pawn on the last rank as it is
MakeMoveNeverPromotes(g, move) ==
    [g EXCEPT
        !.board = [g.board EXCEPT ![move.start_row][move.start_col] = "--",
                                  ![move.end_row][move.end_col] = move.piece_moved],
        !.move_log = Append(g.move_log, move),
        !.white_to_move = ~g.white_to_move,
        !.white_king_location =
            IF move.piece_moved = "wK"
            THEN <<move.end_row, move.end_col>> ELSE @,
        !.black_king_location =
            IF move.piece_moved = "bK"
            THEN <<move.end_row, move.end_col>> ELSE @ ]

\* a variant that does not hand the turn to the other side
MakeMoveKeepsTurn(g, move) ==
    [g EXCEPT
        !.board = [g.board EXCEPT ![move.start_row][move.start_col] = "--",
                                  ![move.end_row][move.end_col] =
                                      IF move.is_pawn_promotion
                                      THEN QueenOf(move.piece_moved)
                                      ELSE move.piece_moved],
        !.move_log = Append(g.move_log, move),
        !.white_king_location =
            IF move.piece_moved = "wK"
            THEN <<move.end_row, move.end_col>> ELSE @,
        !.black_king_location =
            IF move.piece_moved = "bK"
            THEN <<move.end_row, move.end_col>> ELSE @ ]

make_move(g, move) ==
    LET placed == IF move.is_pawn_promotion
                  THEN QueenOf(move.piece_moved)
                  ELSE move.piece_moved
        b1 == [g.board EXCEPT ![move.start_row][move.start_col] = "--"]
        b2 == [b1 EXCEPT ![move.end_row][move.end_col] = placed]
    IN  [g EXCEPT
            !.board = b2,
            !.move_log = Append(g.move_log, move),
            !.white_to_move = ~g.white_to_move,
            !.white_king_location =
                IF move.piece_moved = "wK"
                THEN <<move.end_row, move.end_col>> ELSE @,
            !.black_king_location =
                IF move.piece_moved = "bK"
                THEN <<move.end_row, move.end_col>> ELSE @ ]

\* a variant that empties the destination instead of restoring the captured piece
UndoMoveLosesCapture(g) ==
    IF Len(g.move_log) # 0
    THEN LET move == g.move_log[Len(g.move_log)]
         IN  [g EXCEPT
                !.move_log = SubSeq(g.move_log, 1, Len(g.move_log) - 1),
                !.board = [g.board EXCEPT
                              ![move.start_row][move.start_col] = move.piece_moved,
                              ![move.end_row][move.end_col] = "--"],
                !.white_to_move = ~g.white_to_move,
                !.white_king_location =
                    IF move.piece_moved = "wK"
                    THEN <<move.start_row, move.start_col>> ELSE @,
                !.black_king_location =
                    IF move.piece_moved = "bK"
                    THEN <<move.start_row, move.start_col>> ELSE @ ]
    ELSE g

\* a variant that restores the board but not the cached king locations
UndoMoveForgetsKing(g) ==
    IF Len(g.move_log) # 0
    THEN LET move == g.move_log[Len(g.move_log)]
         IN  [g EXCEPT
                !.move_log = SubSeq(g.move_log, 1, Len(g.move_log) - 1),
                !.board = [g.board EXCEPT
                              ![move.start_row][move.start_col] = move.piece_moved,
                              ![move.end_row][move.end_col] = move.piece_captured],
                !.white_to_move = ~g.white_to_move ]
    ELSE g

\* a variant that leaves the undone move in the history
UndoMoveKeepsLog(g) ==
    IF Len(g.move_log) # 0
    THEN LET move == g.move_log[Len(g.move_log)]
         IN  [g EXCEPT
                !.board = [g.board EXCEPT
                              ![move.start_row][move.start_col] = move.piece_moved,
                              ![move.end_row][move.end_col] = move.piece_captured],
                !.white_to_move = ~g.white_to_move,
                !.white_king_location =
                    IF move.piece_moved = "wK"
                    THEN <<move.start_row, move.start_col>> ELSE @,
                !.black_king_location =
                    IF move.piece_moved = "bK"
                    THEN <<move.start_row, move.start_col>> ELSE @ ]
    ELSE g

\* a variant that hands the turn over also when there is nothing to undo
UndoMoveAlwaysFlips(g) ==
    IF Len(g.move_log) # 0
    THEN LET move == g.move_log[Len(g.move_log)]
         IN  [g EXCEPT
                !.move_log = SubSeq(g.move_log, 1, Len(g.move_log) - 1),
                !.board = [g.board EXCEPT
                              ![move.start_row][move.start_col] = move.piece_moved,
                              ![move.end_row][move.end_col] = move.piece_captured],
                !.white_to_move = ~g.white_to_move,
                !.white_king_location =
                    IF move.piece_moved = "wK"
                    THEN <<move.start_row, move.start_col>> ELSE @,
                !.black_king_location =
                    IF move.piece_moved = "bK"
                    THEN <<move.start_row, move.start_col>> ELSE @ ]
    ELSE [g EXCEPT !.white_to_move = ~g.white_to_move]

\* a variant that also resets the terminal flags of the position it leaves
UndoMoveClearsFlags(g) ==
    IF Len(g.move_log) # 0
    THEN LET move == g.move_log[Len(g.move_log)]
         IN  [g EXCEPT
                !.move_log = SubSeq(g.move_log, 1, Len(g.move_log) - 1),
                !.board = [g.board EXCEPT
                              ![move.start_row][move.start_col] = move.piece_moved,
                              ![move.end_row][move.end_col] = move.piece_captured],
                !.white_to_move = ~g.white_to_move,
                !.white_king_location =
                    IF move.piece_moved = "wK"
                    THEN <<move.start_row, move.start_col>> ELSE @,
                !.black_king_location =
                    IF move.piece_moved = "bK"
                    THEN <<move.start_row, move.start_col>> ELSE @,
                !.check_mate = FALSE,
                !.stale_mate = FALSE ]
    ELSE g

undo_move(g) ==
    IF Len(g.move_log) # 0
    THEN LET move == g.move_log[Len(g.move_log)]
             b1 == [g.board EXCEPT ![move.start_row][move.start_col] = move.piece_moved]
             b2 == [b1 EXCEPT ![move.end_row][move.end_col] = move.piece_captured]
         IN  [g EXCEPT
                !.move_log = SubSeq(g.move_log, 1, Len(g.move_log) - 1),
                !.board = b2,
                !.white_to_move = ~g.white_to_move,
                !.white_king_location =
                    IF move.piece_moved = "wK"
                    THEN <<move.start_row, move.start_col>> ELSE @,
                !.black_king_location =
                    IF move.piece_moved = "bK"
                    THEN <<move.start_row, move.start_col>> ELSE @ ]
    ELSE g

-----------------------------------------------------------------------------
(* The per-piece move generators.  Each returns the moves it appends to    *)
(* the caller's list, in the order it appends them.                        *)

OnBoard(row, col) == 0 <= row /\ row < 8 /\ 0 <= col /\ col < 8

\* a variant that takes the other side's second rank for the home row
PawnHomeRowSwapped(g) == IF g.white_to_move THEN 1 ELSE 6

\* the row a pawn may advance two squares from: "if row == 6" / "if row == 1"
PawnHomeRow(g) == IF g.white_to_move THEN 6 ELSE 1

\* a variant whose double push does not look at the square in between
PawnMovesJumping(g, row, col) ==
    LET b   == g.board
        dir == IF g.white_to_move THEN -1 ELSE 1
        enemy == IF g.white_to_move THEN "b" ELSE "w"
        push == IF b[row + dir][col] = "--"
                THEN <<Move(<<row, col>>, <<row + dir, col>>, b)>>
                ELSE << >>
        double == IF row = PawnHomeRow(g) /\ b[row + 2 * dir][col] = "--"
                  THEN <<Move(<<row, col>>, <<row + 2 * dir, col>>, b)>>
                  ELSE << >>
        left == IF col - 1 >= 0 /\ Side(b[row + dir][col - 1]) = enemy
                THEN <<Move(<<row, col>>, <<row + dir, col - 1>>, b)>>
                ELSE << >>
        right == IF col + 1 <= 7 /\ Side(b[row + dir][col + 1]) = enemy
                 THEN <<Move(<<row, col>>, <<row + dir, col + 1>>, b)>>
                 ELSE << >>
    IN  push \o double \o left \o right

get_pawn_moves(g, row, col) ==
    LET b   == g.board
        dir == IF g.white_to_move THEN -1 ELSE 1
        home == PawnHomeRow(g)
        enemy == IF g.white_to_move THEN "b" ELSE "w"
        push == IF b[row + dir][col] = "--"
                THEN <<Move(<<row, col>>, <<row + dir, col>>, b)>> \o
                     (IF row = home /\ b[row + 2 * dir][col] = "--"
                      THEN <<Move(<<row, col>>, <<row + 2 * dir, col>>, b)>>
                      ELSE << >>)
                ELSE << >>
        left == IF col - 1 >= 0 /\ Side(b[row + dir][col - 1]) = enemy
                THEN <<Move(<<row, col>>, <<row + dir, col - 1>>, b)>>
                ELSE << >>
        right == IF col + 1 <= 7 /\ Side(b[row + dir][col + 1]) = enemy
                 THEN <<Move(<<row, col>>, <<row + dir, col + 1>>, b)>>
                 ELSE << >>
    IN  push \o left \o right

\* the inner loop "for i in range(1, 8)" of the rook and bishop generators
RECURSIVE RayMoves(_, _, _, _, _, _)
RayMoves(g, row, col, d, i, enemy_color) ==
    IF i > 7 THEN << >>
    ELSE LET end_row == row + d[1] * i
             end_col == col + d[2] * i
         IN  IF OnBoard(end_row, end_col)
             THEN LET end_piece == g.board[end_row][end_col]
                  IN  IF end_piece = "--"
                      THEN <<Move(<<row, col>>, <<end_row, end_col>>, g.board)>>
                           \o RayMoves(g, row, col, d, i + 1, enemy_color)
                      ELSE IF Side(end_piece) = enemy_color
                      THEN <<Move(<<row, col>>, <<end_row, end_col>>, g.board)>>
                      ELSE << >>
             ELSE << >>

RookDirections == << <<-1, 0>>, <<0, -1>>, <<1, 0>>, <<0, 1>> >>

BishopDirections == << <<-1, -1>>, <<-1, 1>>, <<1, -1>>, <<1, 1>> >>

\* "for d in directions": the directions lo..hi, in order
RECURSIVE DirectionLoop(_, _, _, _, _, _, _)
DirectionLoop(g, row, col, directions, lo, hi, enemy_color) ==
    IF lo = hi
    THEN RayMoves(g, row, col, directions[lo], 1, enemy_color)
    ELSE LET mid == (lo + hi) \div 2
         IN  DirectionLoop(g, row, col, directions, lo, mid, enemy_color) \o
             DirectionLoop(g, row, col, directions, mid + 1, hi, enemy_color)

\* a variant that lets the rook slide along the diagonals as well
RookMovesAlsoDiagonal(g, row, col) ==
    DirectionLoop(g, row, col, RookDirections \o BishopDirections, 1, 8,
                  IF g.white_to_move THEN "b" ELSE "w")

get_rook_moves(g, row, col) ==
    DirectionLoop(g, row, col, RookDirections, 1, 4,
                  IF g.white_to_move THEN "b" ELSE "w")

get_bishop_moves(g, row, col) ==
    DirectionLoop(g, row, col, BishopDirections, 1, 4,
                  IF g.white_to_move THEN "b" ELSE "w")

get_queen_moves(g, row, col) ==
    get_rook_moves(g, row, col) \o get_bishop_moves(g, row, col)

KnightOffsets ==
    << <<-2, -1>>, <<-2, 1>>, <<-1, -2>>, <<-1, 2>>,
       <<1, -2>>, <<1, 2>>, <<2, -1>>, <<2, 1>> >>

KingOffsets ==
    << <<-1, -1>>, <<-1, 0>>, <<-1, 1>>, <<0, -1>>,
       <<0, 1>>, <<1, -1>>, <<1, 0>>, <<1, 1>> >>

\* one "if in bounds: if not an ally: append" block of the knight and king loops
StepMove(g, row, col, off, ally_color) ==
    LET end_row == row + off[1]
        end_col == col + off[2]
    IN  IF OnBoard(end_row, end_col) /\ Side(g.board[end_row][end_col]) # ally_color
        THEN <<Move(<<row, col>>, <<end_row, end_col>>, g.board)>>
        ELSE << >>

\* "for m in knight_moves": the offsets lo..hi, in order
RECURSIVE KnightLoop(_, _, _, _, _, _)
KnightLoop(g, row, col, lo, hi, ally_color) ==
    IF lo = hi
    THEN StepMove(g, row, col, KnightOffsets[lo], ally_color)
    ELSE LET mid == (lo + hi) \div 2
         IN  KnightLoop(g, row, col, lo, mid, ally_color) \o
             KnightLoop(g, row, col, mid + 1, hi, ally_color)

\* a variant for which no piece is an ally: the knight may land on its own side
KnightMovesOntoAllies(g, row, col) == KnightLoop(g, row, col, 1, 8, "-")

get_knight_moves(g, row, col) ==
    KnightLoop(g, row, col, 1, 8, IF g.white_to_move THEN "w" ELSE "b")

\* "for i in range(8)": the offsets lo..hi, in order; the body of the loop
\* holds the in-bounds/occupancy block twice
RECURSIVE KingLoop(_, _, _, _, _, _)
KingLoop(g, row, col, lo, hi, ally_color) ==
    IF lo = hi
    THEN StepMove(g, row, col, KingOffsets[lo], ally_color) \o
         StepMove(g, row, col, KingOffsets[lo], ally_color)
    ELSE LET mid == (lo + hi) \div 2
         IN  KingLoop(g, row, col, lo, mid, ally_color) \o
             KingLoop(g, row, col, mid + 1, hi, ally_color)

get_king_moves(g, row, col) ==
    KingLoop(g, row, col, 1, 8, IF g.white_to_move THEN "w" ELSE "b")

\* self.move_functions[piece](row, col, moves)
move_functions(g, piece, row, col) ==
    CASE piece = "p" -> get_pawn_moves(g, row, col)
      [] piece = "R" -> get_rook_moves(g, row, col)
      [] piece = "N" -> get_knight_moves(g, row, col)
      [] piece = "B" -> get_bishop_moves(g, row, col)
      [] piece = "Q" -> get_queen_moves(g, row, col)
      [] piece = "K" -> get_king_moves(g, row, col)

\* a variant that does not compare the colour of the piece with the turn
SquareMovesAnySide(g, row, col) ==
    IF g.board[row][col] # "--"
    THEN move_functions(g, Kind(g.board[row][col]), row, col)
    ELSE << >>

\* the body of the two nested loops of get_all_possible_moves for one square
SquareMoves(g, row, col) ==
    LET turn == Side(g.board[row][col])
    IN  IF (turn = "w" /\ g.white_to_move) \/ (turn = "b" /\ ~g.white_to_move)
        THEN move_functions(g, Kind(g.board[row][col]), row, col)
        ELSE << >>

\* the two nested loops "for row ...: for col ...": the squares lo..hi in
\* row-major order, square 8 * row + col
RECURSIVE SquareLoop(_, _, _)
SquareLoop(g, lo, hi) ==
    IF lo = hi
    THEN SquareMoves(g, lo \div 8, lo % 8)
    ELSE LET mid == (lo + hi) \div 2
         IN  SquareLoop(g, lo, mid) \o SquareLoop(g, mid + 1, hi)

get_all_possible_moves(g) == SquareLoop(g, 0, 63)

-----------------------------------------------------------------------------
(* Attack detection *)

\* any(move.end_row == row and move.end_col == col for move in opp_moves)
AnyEndsAt(opp_moves, row, col) ==
    \E k \in 1..Len(opp_moves) :
        opp_moves[k].end_row = row /\ opp_moves[k].end_col = col

\* a variant that looks at the moves of the side to move, not the opponent's
SquareUnderAttackOwnMoves(g, row, col) ==
    AnyEndsAt(get_all_possible_moves(g), row, col)

\* the value square_under_attack(row, col) returns
square_under_attack(g, row, col) ==
    AnyEndsAt(get_all_possible_moves([g EXCEPT !.white_to_move = ~g.white_to_move]),
              row, col)

\* a variant that does not switch the turn back
AfterSquareUnderAttackOneFlip(g) == [g EXCEPT !.white_to_move = ~g.white_to_move]

\* a variant that hands the turn to White instead of switching it back
AfterSquareUnderAttackWhiteToMove(g) == [g EXCEPT !.white_to_move = TRUE]

\* the state square_under_attack leaves: the turn flag flipped and flipped back
after_square_under_attack(g) ==
    LET flipped == [g EXCEPT !.white_to_move = ~g.white_to_move]
    IN  [flipped EXCEPT !.white_to_move = ~flipped.white_to_move]

\* a variant that looks at the white king whoever is to move
InCheckWhiteKingOnly(g) ==
    square_under_attack(g, g.white_king_location[1], g.white_king_location[2])

in_check(g) ==
    IF g.white_to_move
    THEN square_under_attack(g, g.white_king_location[1], g.white_king_location[2])
    ELSE square_under_attack(g, g.black_king_location[1], g.black_king_location[2])

-----------------------------------------------------------------------------
(* Legal moves *)

\* a variant that drops the last element of the list, whatever x is
RemoveLast(list, x) == SubSeq(list, 1, Len(list) - 1)

\* list.remove(x): drops the first element equal to x
Remove(list, x) ==
    LET first == CHOOSE k \in 1..Len(list) :
                     /\ MoveEq(list[k], x)
                     /\ \A j \in 1..(k - 1) : ~MoveEq(list[j], x)
    IN  SubSeq(list, 1, first - 1) \o SubSeq(list, first + 1, Len(list))

\* one iteration of "for i in range(len(moves) - 1, -1, -1)" on st = [gs, moves]
FilterStep(st, i) ==
    LET m       == st.moves[i + 1]
        made    == make_move(st.gs, m)
        mine    == [made EXCEPT !.white_to_move = ~made.white_to_move]
        checked == in_check(mine)
        seen    == after_square_under_attack(mine)
        back    == [seen EXCEPT !.white_to_move = ~seen.white_to_move]
    IN  [ gs    |-> undo_move(back),
          moves |-> IF checked THEN Remove(st.moves, m) ELSE st.moves ]

\* the iterations i = hi, hi - 1, ..., lo of the loop, in that order.  The range
\* is halved, and the state the upper half leaves is evaluated (as the one
\* element of a set) before the lower half starts from it, so that the
\* evaluation nests to a depth logarithmic in the length of the list.
RECURSIVE FilterLoop(_, _, _)
FilterLoop(st, lo, hi) ==
    IF hi < lo THEN st
    ELSE IF hi = lo THEN FilterStep(st, lo)
    ELSE LET mid == (lo + hi) \div 2
         IN  CHOOSE r \in { FilterLoop(u, lo, mid) : u \in {FilterLoop(st, mid + 1, hi)} } : TRUE

\* the tail of get_valid_moves: the terminal flags are set from the filtered list
SetFlags(st) ==
    IF Len(st.moves) = 0
    THEN IF in_check(st.gs)
         THEN [gs |-> [st.gs EXCEPT !.check_mate = TRUE], moves |-> st.moves]
         ELSE [gs |-> [st.gs EXCEPT !.stale_mate = TRUE], moves |-> st.moves]
    ELSE [gs |-> [st.gs EXCEPT !.check_mate = FALSE, !.stale_mate = FALSE],
          moves |-> st.moves]

\* a variant that keeps every candidate
FilterKeepsAll(g, candidates) == [gs |-> g, moves |-> candidates]

\* the filter loop of get_valid_moves over the candidate list
Filter(g, candidates) ==
    FilterLoop([gs |-> g, moves |-> candidates], 0, Len(candidates) - 1)

\* get_valid_moves(): [gs |-> the state it leaves, moves |-> the list it returns]
get_valid_moves(g) == SetFlags(Filter(g, get_all_possible_moves(g)))

-----------------------------------------------------------------------------
(* The state machine *)

\* the GameState object as one value
gs ==
    [ board               |-> board,
      white_to_move       |-> white_to_move,
      move_log            |-> move_log,
      white_king_location |-> white_king_location,
      black_king_location |-> black_king_location,
      check_mate          |-> check_mate,
      stale_mate          |-> stale_mate ]

StateIs(g) ==
    /\ board = g.board
    /\ white_to_move = g.white_to_move
    /\ move_log = g.move_log
    /\ white_king_location = g.white_king_location
    /\ black_king_location = g.black_king_location
    /\ check_mate = g.check_mate
    /\ stale_mate = g.stale_mate

Becomes(g) ==
    /\ board' = g.board
    /\ white_to_move' = g.white_to_move
    /\ move_log' = g.move_log
    /\ white_king_location' = g.white_king_location
    /\ black_king_location' = g.black_king_location
    /\ check_mate' = g.check_mate
    /\ stale_mate' = g.stale_mate

-----------------------------------------------------------------------------
(* Recorded games.  A game is the list of the move_ids played from the new *)
(* game; Play replays it as a caller does, asking get_valid_moves() for    *)
(* the legal moves before every make_move.                                 *)

\* 1. e4 f5 2. Qh5+ : Black is in check and has one legal reply
CheckGame == << <<6, 4, 4, 4>>, <<1, 5, 3, 5>>, <<7, 3, 3, 7>> >>

\* a game that leaves Black a bare king on h4: White can stalemate, mate or promote
EndGame ==
    << <<6, 3, 5, 3>>, <<1, 7, 3, 7>>, <<6, 5, 5, 5>>, <<1, 6, 2, 6>>,
       <<7, 4, 6, 3>>, <<0, 5, 1, 6>>, <<6, 0, 5, 0>>, <<0, 7, 1, 7>>,
       <<6, 2, 4, 2>>, <<1, 5, 2, 5>>, <<7, 3, 5, 1>>, <<1, 6, 2, 7>>,
       <<5, 5, 4, 5>>, <<1, 2, 2, 2>>, <<5, 1, 1, 1>>, <<2, 6, 3, 6>>,
       <<1, 1, 0, 0>>, <<0, 2, 1, 1>>, <<0, 0, 1, 1>>, <<1, 0, 3, 0>>,
       <<6, 3, 5, 4>>, <<2, 2, 3, 2>>, <<1, 1, 1, 3>>, <<0, 4, 1, 5>>,
       <<1, 3, 1, 4>>, <<1, 5, 2, 6>>, <<4, 5, 3, 6>>, <<2, 7, 1, 6>>,
       <<1, 4, 1, 6>>, <<2, 6, 3, 5>>, <<3, 6, 2, 5>>, <<3, 0, 4, 0>>,
       <<1, 6, 0, 6>>, <<1, 7, 1, 5>>, <<0, 6, 0, 3>>, <<1, 5, 1, 6>>,
       <<0, 3, 0, 5>>, <<0, 1, 2, 0>>, <<2, 5, 1, 6>>, <<3, 5, 2, 6>>,
       <<0, 5, 3, 2>>, <<2, 6, 2, 5>>, <<3, 2, 4, 3>>, <<2, 5, 3, 6>>,
       <<4, 3, 2, 1>>, <<2, 0, 4, 1>>, <<2, 1, 4, 1>>, <<3, 6, 4, 6>>,
       <<4, 1, 4, 0>>, <<3, 7, 4, 7>>, <<6, 1, 4, 1>>, <<4, 6, 3, 7>>,
       <<4, 0, 3, 1>>, <<3, 7, 4, 6>>, <<7, 0, 6, 0>>, <<4, 7, 5, 7>>,
       <<6, 6, 5, 7>>, <<4, 6, 4, 7>> >>

Openings == { << >>, CheckGame, EndGame }

\* one turn of a caller: the legal moves are listed, and the move with the
\* given move_id is made if it equals one of them
MakeIfLegal(r, id) ==
    LET m == Move(<<id[1], id[2]>>, <<id[3], id[4]>>, r.gs.board)
    IN  IF \E k \in 1..Len(r.moves) : MoveEq(m, r.moves[k])
        THEN make_move(r.gs, m)
        ELSE r.gs

PlayStep(g, id) == MakeIfLegal(get_valid_moves(g), id)

\* the turns lo..hi of a recorded game, in order (halved like FilterLoop)
RECURSIVE PlayRange(_, _, _, _)
PlayRange(g, game, lo, hi) ==
    IF hi < lo THEN g
    ELSE IF hi = lo THEN PlayStep(g, game[lo])
    ELSE LET mid == (lo + hi) \div 2
         IN  CHOOSE r \in { PlayRange(u, game, mid + 1, hi) :
                            u \in {PlayRange(g, game, lo, mid)} } : TRUE

Play(game) == PlayRange(NewGame, game, 1, Len(game))

\* move_log continues the recorded game
Continues(game) ==
    /\ Len(move_log) >= Len(game)
    /\ \A k \in 1..Len(game) : move_log[k].move_id = game[k]

\* how many plies are explored beyond a recorded game
MaxPly == 1

Init ==
    /\ \E game \in Openings :
          /\ StateIs(Play(game))
          /\ Len(move_log) = Len(game)
          /\ last_call = IF game = << >> THEN "new" ELSE "make_move"
    /\ moves = << >>
    /\ listed = FALSE
    /\ valid_moves = << >>
    /\ is_move_made = FALSE
    /\ game_over = FALSE
    /\ selected_square = << >>
    /\ clicked_positions = << >>

MakesOneOf(legal) == \E k \in 1..Len(legal) : Becomes(make_move(gs, legal[k]))

\* make_move(m) for a move m that get_valid_moves() returned for the current
\* position, in the last call or in a call before a make_move that was undone
MakeMove ==
    /\ listed
    /\ \E game \in Openings : Continues(game) /\ Len(move_log) < Len(game) + MaxPly
    /\ MakesOneOf(get_valid_moves(gs).moves)
    /\ last_call' = "make_move"
    /\ moves' = << >>
    /\ listed' = FALSE
    /\ UNCHANGED front

\* undo_move(): the position it returns to is one a move was made from, so
\* its legal moves have been listed
UndoMove ==
    /\ Becomes(undo_move(gs))
    /\ last_call' = "undo_move"
    /\ moves' = << >>
    /\ listed' = IF Len(move_log) # 0 THEN TRUE ELSE listed
    /\ UNCHANGED front

Returns(r) == Becomes(r.gs) /\ moves' = r.moves

GetValidMoves ==
    /\ Returns(get_valid_moves(gs))
    /\ last_call' = "get_valid_moves"
    /\ listed' = TRUE
    /\ UNCHANGED front

Next == MakeMove \/ UndoMove \/ GetValidMoves

Spec == Init /\ [][Next]_vars

-----------------------------------------------------------------------------
(* Helpers of the properties *)

\* the positions the recorded games end in
EndPosition == Play(EndGame)

Squares == (0..7) \X (0..7)

AfterValidMoves == last_call = "get_valid_moves"

LastMove == move_log[Len(move_log)]

\* the state seen from the side that has just moved
Flip(g) == [g EXCEPT !.white_to_move = ~g.white_to_move]

\* after make_move(m) the king of the side that moved is not attacked
LeavesKingSafe(g, m) == ~in_check(Flip(make_move(g, m)))

IsSafeNow(m) == LeavesKingSafe(gs, m)

\* some candidate of the position was discarded by the filter
SomeDiscarded == Len(moves) < Len(get_all_possible_moves(gs))

-----------------------------------------------------------------------------
(* C1 *)

\* C1: every move get_valid_moves() returned leaves, once made, the king of
\* the side that made it unattacked (in_check() from the mover's side is false).
C1_LegalMoveLeavesKingSafe ==
    AfterValidMoves => \A k \in 1..Len(moves) : LeavesKingSafe(gs, moves[k])

\* get_valid_moves() was called in a check position and kept some candidates
C1_Witness ==
    AfterValidMoves /\ in_check(gs) /\ Len(moves) > 0 /\ SomeDiscarded

-----------------------------------------------------------------------------
(* C2 *)

\* C2: the list get_valid_moves() returns is exactly the sub-sequence of
\* get_all_possible_moves() of the moves that leave the mover's king unattacked.
C2_ExactlyTheSafeSubsequence ==
    AfterValidMoves => moves = SelectSeq(get_all_possible_moves(gs), IsSafeNow)

HasDiscardedTwin(all) ==
    \E k \in 1..(Len(all) - 1) : MoveEq(all[k], all[k + 1]) /\ ~IsSafeNow(all[k])

\* the filter met a king move that is listed twice and unsafe, and kept other moves
C2_Witness ==
    AfterValidMoves /\ Len(moves) > 0 /\ HasDiscardedTwin(get_all_possible_moves(gs))

-----------------------------------------------------------------------------
(* C3 *)

Restored(g, u, m) ==
    /\ u.white_to_move = g.white_to_move
    /\ u.white_king_location = g.white_king_location
    /\ u.black_king_location = g.black_king_location
    /\ Len(u.move_log) = Len(g.move_log)
    /\ (~m.is_pawn_promotion => u.board = g.board)

RoundTrip(g, m) == Restored(g, undo_move(make_move(g, m)), m)

\* C3: for every move built from the current board, make_move then undo_move
\* restores the turn flag, both king locations and the length of the history,
\* and the board too unless the move is a promotion.
C3_MakeUndoRoundTrip ==
    \A start_sq \in Squares : \A end_sq \in Squares :
        RoundTrip(gs, Move(start_sq, end_sq, board))

\* a move was made from the end-game position and undone again
C3_Witness ==
    /\ last_call = "undo_move"
    /\ board = EndPosition.board
    /\ move_log = EndPosition.move_log
    /\ white_to_move = EndPosition.white_to_move
    /\ white_king_location = EndPosition.white_king_location

-----------------------------------------------------------------------------
(* C4 *)

\* C4: a call of get_valid_moves() leaves the board, the turn flag, both king
\* locations and the history as they were.
C4_ValidMovesKeepsPosition ==
    [][last_call' = "get_valid_moves" =>
           /\ board' = board
           /\ white_to_move' = white_to_move
           /\ white_king_location' = white_king_location
           /\ black_king_location' = black_king_location
           /\ move_log' = move_log]_vars

\* get_valid_moves() discarded every candidate it tried
C4_Witness ==
    AfterValidMoves /\ Len(moves) = 0 /\ Len(get_all_possible_moves(gs)) > 0

-----------------------------------------------------------------------------
(* C5 *)

\* C5: after get_valid_moves(), the list is empty iff exactly one of
\* check_mate / stale_mate is true, and check_mate is true iff the list is
\* empty and the side to move is in check.
C5_FlagsTellTheResult ==
    AfterValidMoves =>
        /\ (Len(moves) = 0) <=> (check_mate # stale_mate)
        /\ check_mate <=> (Len(moves) = 0 /\ in_check(gs))

-----------------------------------------------------------------------------
(* C6 *)

\* C6: check_mate and stale_mate are never both true.
C6_FlagsExclusive == ~(check_mate /\ stale_mate)

-----------------------------------------------------------------------------
(* C7 *)

\* C7: between operations the cached king locations are the squares that
\* hold "wK" and "bK".
C7_KingCacheMatchesBoard ==
    /\ board[white_king_location[1]][white_king_location[2]] = "wK"
    /\ board[black_king_location[1]][black_king_location[2]] = "bK"

\* a white king move has just been made
C7_Witness ==
    last_call = "make_move" /\ Len(move_log) > 0 /\ LastMove.piece_moved = "wK"

-----------------------------------------------------------------------------
(* C8 *)

Count(piece) == Cardinality({sq \in Squares : board[sq[1]][sq[2]] = piece})

\* C8: the board holds exactly one "wK" and one "bK", and no move returned by
\* get_valid_moves() captures a king.
C8_OneKingEach ==
    /\ Count("wK") = 1
    /\ Count("bK") = 1
    /\ AfterValidMoves =>
           \A k \in 1..Len(moves) : moves[k].piece_captured \notin {"wK", "bK"}

\* get_valid_moves() returned a capture among the legal moves
C8_Witness ==
    /\ AfterValidMoves
    /\ \E k \in 1..Len(moves) : moves[k].piece_captured # "--"

-----------------------------------------------------------------------------
(* C9 *)

\* C9: in a new game, and after any one legal move of a new game,
\* get_valid_moves() returns exactly 20 moves and leaves both flags false.
C9_TwentyMoves ==
    (AfterValidMoves /\ Len(move_log) <= 1) =>
        Len(moves) = 20 /\ ~check_mate /\ ~stale_mate

\* get_valid_moves() was called for Black after White's first move
C9_Witness ==
    AfterValidMoves /\ Len(move_log) = 1 /\ ~white_to_move /\ Len(moves) = 20

-----------------------------------------------------------------------------
(* C10 *)

MadeAsDescribed(g, n, m) ==
    /\ n.board = [g.board EXCEPT ![m.start_row][m.start_col] = "--",
                                 ![m.end_row][m.end_col] = m.piece_moved]
    /\ n.move_log = Append(g.move_log, m)
    /\ n.white_to_move = ~g.white_to_move
    /\ n.white_king_location =
           IF m.piece_moved = "wK" THEN <<m.end_row, m.end_col>>
           ELSE g.white_king_location
    /\ n.black_king_location =
           IF m.piece_moved = "bK" THEN <<m.end_row, m.end_col>>
           ELSE g.black_king_location

MakeFrame(g, m) == m.is_pawn_promotion \/ MadeAsDescribed(g, make_move(g, m), m)

\* C10: make_move of a non-promoting move empties the source square, puts the
\* moved piece on the destination, appends the move, flips the turn, moves the
\* king location of a moved king, and changes nothing else of the position.
C10_MakeMoveFrame ==
    \A start_sq \in Squares : \A end_sq \in Squares \ {start_sq} :
        MakeFrame(gs, Move(start_sq, end_sq, board))

\* a knight move has just been made
C10_Witness ==
    /\ last_call = "make_move" /\ Len(move_log) > 0
    /\ LastMove.piece_moved = "wN" /\ ~LastMove.is_pawn_promotion
    /\ board[LastMove.end_row][LastMove.end_col] = "wN"

-----------------------------------------------------------------------------
(* C11 *)

\* C11: the length of move_log counts the moves made and not undone: a
\* make_move adds one, an undo_move with a non-empty history takes one away, an
\* undo_move with an empty history and a get_valid_moves leave it as it is.
C11_LogLengthLedger ==
    [][/\ last_call' = "make_move" => Len(move_log') = Len(move_log) + 1
       /\ last_call' = "undo_move" =>
              Len(move_log') = IF Len(move_log) # 0 THEN Len(move_log) - 1 ELSE 0
       /\ last_call' = "get_valid_moves" => Len(move_log') = Len(move_log)]_vars

\* the only reply to 1. e4 f5 2. Qh5+ was made and undone
C11_Witness ==
    /\ last_call = "undo_move"
    /\ Continues(CheckGame) /\ Len(move_log) = Len(CheckGame)

-----------------------------------------------------------------------------
(* C12 *)

\* C12: undo_move() with an empty move_log changes nothing: board, turn flag,
\* king locations, move_log and both terminal flags stay as they were.
C12_UndoOnEmptyLogIsNoOp ==
    [][(last_call' = "undo_move" /\ Len(move_log) = 0) =>
           /\ board' = board
           /\ white_to_move' = white_to_move
           /\ white_king_location' = white_king_location
           /\ black_king_location' = black_king_location
           /\ move_log' = move_log
           /\ check_mate' = check_mate
           /\ stale_mate' = stale_mate]_vars

\* undo_move() ran on a new game, whose history is empty (an undo_move that
\* takes a move back leaves a position whose legal moves have been listed)
C12_Witness ==
    last_call = "undo_move" /\ Len(move_log) = 0 /\ ~listed

-----------------------------------------------------------------------------
(* C13 *)

SameSquares(m, start_sq, end_sq) ==
    <<m.start_row, m.start_col>> = start_sq /\ <<m.end_row, m.end_col>> = end_sq

\* m compared, both ways round, with the move between the given squares built
\* from board b
EqualIffSameSquares(m, start_sq, end_sq, b) ==
    /\ MoveEq(m, Move(start_sq, end_sq, b)) <=> SameSquares(m, start_sq, end_sq)
    /\ MoveEq(Move(start_sq, end_sq, b), m) <=> SameSquares(m, start_sq, end_sq)

\* values that carry a Move's move_id without being a Move
NonMoves(m) == { [move_id |-> m.move_id],
                 [move_id |-> m.move_id, piece_moved |-> m.piece_moved] }

\* C13: two Moves are equal iff their start and end squares are equal, whatever
\* pieces and promotion flag they carry and whatever board they were built
\* from, and a Move equals no value that is not a Move.  The move just made is
\* compared with every move built from the board it has changed.
C13_EqualityIsCoordinateOnly ==
    (last_call = "make_move" /\ Len(move_log) > 0) =>
        /\ \A start_sq \in Squares : \A end_sq \in Squares :
               EqualIffSameSquares(LastMove, start_sq, end_sq, board)
        /\ \A other \in NonMoves(LastMove) : ~MoveEq(LastMove, other)

DiffersInEveryAttribute(m, n) ==
    /\ m.piece_moved # n.piece_moved
    /\ m.piece_captured # n.piece_captured
    /\ m.is_pawn_promotion # n.is_pawn_promotion

\* a promotion was made; the move between its squares built from the board
\* after it differs from it in piece moved, piece captured and promotion flag
C13_Witness ==
    /\ last_call = "make_move" /\ Len(move_log) > 0
    /\ DiffersInEveryAttribute(LastMove,
           Move(<<LastMove.start_row, LastMove.start_col>>,
                <<LastMove.end_row, LastMove.end_col>>, board))

-----------------------------------------------------------------------------
(* The front end: the event loop of ChessGame.main.  One action handles one *)
(* event of the queue; EndPass is what the loop does once the queue of a    *)
(* pass is empty.  A pass may handle any number of events.                  *)

\* the squares a click may land on: e2, e4, e7, e5 and e1
ClickSquares == { <<6, 4>>, <<4, 4>>, <<1, 4>>, <<3, 4>>, <<7, 4>> }

\* clicks are explored while move_log is shorter than this
MaxFrontLog == 3

\* clicks are explored while clicked_positions is no longer than this
MaxClicked == 1

\* the number of entries of valid_moves the clicked move equals
Matches(move, list) ==
    Cardinality({ i \in 1..Len(list) : MoveEq(move, list[i]) })

\* "for i in range(len(valid_moves)): if move == valid_moves[i]:
\*  gs.make_move(move)": the same move is made once for every match
RECURSIVE MakeTimes(_, _, _)
MakeTimes(g, move, n) ==
    IF n = 0 THEN g ELSE MakeTimes(make_move(g, move), move, n - 1)

\* the state main() starts from: a new game whose legal moves are listed
FirstList == get_valid_moves(NewGame)

FrontInit ==
    /\ StateIs(FirstList.gs)
    /\ valid_moves = FirstList.moves
    /\ is_move_made = FALSE
    /\ game_over = FALSE
    /\ selected_square = << >>
    /\ clicked_positions = << >>
    /\ last_call = "new" /\ moves = << >> /\ listed = FALSE

\* the second click of a pair: move is matched against valid_moves, n times
PairClicked(sel, clicked, move, n) ==
    /\ Becomes(MakeTimes(gs, move, n))
    /\ is_move_made' = (is_move_made \/ n > 0)
    /\ selected_square' = IF n > 0 THEN << >> ELSE sel
    /\ clicked_positions' =
           IF n > 0 THEN << >>
           ELSE IF ~is_move_made THEN <<sel>> ELSE clicked

\* the rest of the handler once the click is recorded in sel and clicked
Clicked(sel, clicked) ==
    IF Len(clicked) = 2
    THEN PairClicked(sel, clicked, Move(clicked[1], clicked[2], board),
                     Matches(Move(clicked[1], clicked[2], board), valid_moves))
    ELSE /\ Becomes(gs)
         /\ selected_square' = sel
         /\ clicked_positions' = clicked
         /\ UNCHANGED is_move_made

\* the handler of MOUSEBUTTONDOWN on square sq; "if not game_over" guards it
MouseButtonDown(sq) ==
    /\ ~game_over
    /\ LET again  == selected_square = sq
           first  == ~again /\ Len(clicked_positions) = 0
                     /\ board[sq[1]][sq[2]] = "--"
       IN  IF again \/ first
           THEN Clicked(<< >>, << >>)
           ELSE Clicked(sq, Append(clicked_positions, sq))
    /\ UNCHANGED <<valid_moves, game_over>>
    /\ UNCHANGED direct

\* MOUSEBUTTONDOWN on square sq
Click(sq) ==
    /\ Len(move_log) < MaxFrontLog
    /\ Len(clicked_positions) <= MaxClicked
    /\ MouseButtonDown(sq)

\* KEYDOWN z
KeyZ ==
    /\ Becomes(undo_move(gs))
    /\ is_move_made' = TRUE
    /\ UNCHANGED <<valid_moves, game_over, selected_square, clicked_positions>>
    /\ UNCHANGED direct

Restarted(r) ==
    /\ Becomes(r.gs)
    /\ valid_moves' = r.moves

\* KEYDOWN r: gs = GameState(); valid_moves = gs.get_valid_moves()
KeyR ==
    /\ Restarted(FirstList)
    /\ selected_square' = << >>
    /\ clicked_positions' = << >>
    /\ is_move_made' = FALSE
    /\ UNCHANGED game_over
    /\ UNCHANGED direct

Recomputed(r) ==
    /\ Becomes(r.gs)
    /\ valid_moves' = r.moves
    /\ is_move_made' = FALSE

\* after the events of a pass: valid_moves is recomputed if a move was made
\* or undone, and the terminal flags end the game
EndPass ==
    /\ IF is_move_made
       THEN Recomputed(get_valid_moves(gs))
       ELSE Becomes(gs) /\ UNCHANGED <<valid_moves, is_move_made>>
    /\ game_over' = (game_over \/ check_mate' \/ stale_mate')
    /\ UNCHANGED <<selected_square, clicked_positions>>
    /\ UNCHANGED direct

FrontNext ==
    \/ \E sq \in ClickSquares : Click(sq)
    \/ KeyZ
    \/ KeyR
    \/ EndPass

FrontSpec == FrontInit /\ [][FrontNext]_vars

-----------------------------------------------------------------------------
(* C14 *)

AnyEquals(list, m) == \E k \in 1..Len(list) : MoveEq(m, list[k])

\* m is one of the legal moves of position g
LegalIn(g, m) == AnyEquals(get_valid_moves(g).moves, m)

\* the entries lo..hi of log, each legal in the position the front end makes
\* it in, g being the position the first of them is made in
RECURSIVE EachLegal(_, _, _, _)
EachLegal(g, log, lo, hi) ==
    IF lo > hi THEN TRUE
    ELSE LegalIn(g, log[lo]) /\ EachLegal(make_move(g, log[lo]), log, lo + 1, hi)

\* C14: every move the front end passes to make_move is, when it is made, a
\* legal move of the position it is made in; so an event changes the position
\* by a click pair only if the pair is a legal move of the current position,
\* whatever events were handled before it in the same pass.
C14_FrontEndMakesLegalMoves ==
    [][Len(move_log') > Len(move_log) =>
           EachLegal(gs, move_log', Len(move_log) + 1, Len(move_log'))]_vars

-----------------------------------------------------------------------------
(* C15 *)

\* C15: a click pair that matches the legal-move list is applied exactly once:
\* move_log grows by one entry and the turn passes to the opponent.
C15_FrontEndAppliesOnce ==
    [][Len(move_log') > Len(move_log) =>
           /\ Len(move_log') = Len(move_log) + 1
           /\ white_to_move' = ~white_to_move]_vars

-----------------------------------------------------------------------------
(* C16 *)

NoTwoEqual(list) ==
    \A i \in 1..Len(list) : \A j \in 1..Len(list) :
        i # j => ~MoveEq(list[i], list[j])

KingSquare(g) ==
    IF g.white_to_move THEN g.white_king_location ELSE g.black_king_location

\* C16: get_king_moves appends no destination twice, so that neither
\* get_all_possible_moves() nor the list get_valid_moves() returned holds two
\* equal moves.
C16_NoMoveListedTwice ==
    /\ NoTwoEqual(get_king_moves(gs, KingSquare(gs)[1], KingSquare(gs)[2]))
    /\ NoTwoEqual(get_all_possible_moves(gs))
    /\ AfterValidMoves => NoTwoEqual(moves)

-----------------------------------------------------------------------------
(* C17 *)

ReachesLastRank(m) ==
    \/ m.piece_moved = "wp" /\ m.end_row = 0
    \/ m.piece_moved = "bp" /\ m.end_row = 7

\* n is the state make_move(m) leaves, u the state undo_move() leaves after it
QueenThenPawnAgain(m, n, u) ==
    /\ n.board[m.end_row][m.end_col] = IF m.piece_moved = "wp" THEN "wQ" ELSE "bQ"
    /\ u.board[m.start_row][m.start_col] = m.piece_moved
    /\ u.board[m.end_row][m.end_col] = m.piece_captured

PromotionRule(g, m) ==
    /\ m.is_pawn_promotion <=> ReachesLastRank(m)
    /\ m.is_pawn_promotion =>
           QueenThenPawnAgain(m, make_move(g, m), undo_move(make_move(g, m)))

\* C17: for every move built from the current board, the promotion flag is set
\* iff a white pawn ends on row 0 or a black pawn on row 7; make_move of such a
\* move leaves a queen of the pawn's side on the destination, and undo_move
\* then puts the pawn back on the source and the captured piece on the
\* destination.
C17_PromotionRoundTrip ==
    \A start_sq \in Squares : \A end_sq \in Squares :
        PromotionRule(gs, Move(start_sq, end_sq, board))

\* a promotion has been made in play: a queen stands where the pawn arrived,
\* and undo_move would put the pawn back
C17_Witness ==
    /\ last_call = "make_move" /\ Len(move_log) > 0
    /\ LastMove.is_pawn_promotion
    /\ board[LastMove.end_row][LastMove.end_col] = "wQ"
    /\ undo_move(gs).board[LastMove.start_row][LastMove.start_col] = "wp"

-----------------------------------------------------------------------------
(* C18 *)

\* the piece on a square, "--" beyond the edge of the board
PieceAt(b, row, col) == IF OnBoard(row, col) THEN b[row][col] ELSE "--"

Jumps == { <<-2, -1>>, <<-2, 1>>, <<-1, -2>>, <<-1, 2>>,
           <<1, -2>>, <<1, 2>>, <<2, -1>>, <<2, 1>> }

Straight == { <<-1, 0>>, <<1, 0>>, <<0, -1>>, <<0, 1>> }

Diagonal == { <<-1, -1>>, <<-1, 1>>, <<1, -1>>, <<1, 1>> }

\* one of the given pieces stands on the line from (row, col) in direction d,
\* with nothing between it and (row, col)
SeenAlong(b, row, col, d, pieces) ==
    \E i \in 1..7 :
        /\ PieceAt(b, row + i * d[1], col + i * d[2]) \in pieces
        /\ \A j \in 1..(i - 1) : PieceAt(b, row + j * d[1], col + j * d[2]) = "--"

\* the rules of chess: the square is attacked by a pawn on a forward diagonal
\* of the pawn, a knight a jump away, a rook, bishop or queen along a free
\* line, or an adjacent king, of the side "by"
AttackedByRules(b, row, col, by) ==
    \/ by = "w" /\ "wp" \in {PieceAt(b, row + 1, col - 1), PieceAt(b, row + 1, col + 1)}
    \/ by = "b" /\ "bp" \in {PieceAt(b, row - 1, col - 1), PieceAt(b, row - 1, col + 1)}
    \/ \E j \in Jumps :
           PieceAt(b, row + j[1], col + j[2]) = (IF by = "w" THEN "wN" ELSE "bN")
    \/ \E d \in Straight \cup Diagonal :
           PieceAt(b, row + d[1], col + d[2]) = (IF by = "w" THEN "wK" ELSE "bK")
    \/ \E d \in Straight :
           SeenAlong(b, row, col, d, IF by = "w" THEN {"wR", "wQ"} ELSE {"bR", "bQ"})
    \/ \E d \in Diagonal :
           SeenAlong(b, row, col, d, IF by = "w" THEN {"wB", "wQ"} ELSE {"bB", "bQ"})

KingAttackedByRules(g) ==
    AttackedByRules(g.board, KingSquare(g)[1], KingSquare(g)[2],
                    IF g.white_to_move THEN "b" ELSE "w")

InCheckAsRules(g) == in_check(g) <=> KingAttackedByRules(g)

\* in_check() as the legality filter calls it: after each candidate, for the
\* side that made it
InCheckAsRulesAfterEach(all) ==
    \A k \in 1..Len(all) : InCheckAsRules(Flip(make_move(gs, all[k])))

\* C18: in_check() is true iff the king of the side to move is attacked under
\* the rules of chess by a piece of the other side, in every position of legal
\* play and in every position the legality filter tries; in the initial
\* position it is false and square_under_attack(7, 4) is false.
C18_InCheckIffAttacked ==
    /\ InCheckAsRules(gs)
    /\ AfterValidMoves => InCheckAsRulesAfterEach(get_all_possible_moves(gs))
    /\ Len(move_log) = 0 => ~in_check(gs) /\ ~square_under_attack(gs, 7, 4)

\* a move has just been made that attacks the king of the side now to move
C18_Witness ==
    last_call = "make_move" /\ in_check(gs) /\ KingAttackedByRules(gs)

-----------------------------------------------------------------------------
(* C20 *)

\* the squares a pawn of the side to move on (row, col) may go to: one ahead
\* if empty, two ahead from the starting row if both are empty, and a forward
\* diagonal that is on the board and holds a piece of the other side
PawnDestinations(g, row, col) ==
    LET ahead == IF g.white_to_move THEN -1 ELSE 1
        start == IF g.white_to_move THEN 6 ELSE 1
        other == IF g.white_to_move THEN BlackPieces ELSE WhitePieces
    IN  { sq \in Squares :
            \/ /\ sq = <<row + ahead, col>>
               /\ g.board[sq[1]][sq[2]] = "--"
            \/ /\ sq = <<row + 2 * ahead, col>>
               /\ row = start
               /\ g.board[row + ahead][col] = "--"
               /\ g.board[sq[1]][sq[2]] = "--"
            \/ /\ sq \in { <<row + ahead, col - 1>>, <<row + ahead, col + 1>> }
               /\ g.board[sq[1]][sq[2]] \in other }

\* the list holds one move of the pawn to each given square and no other
ExactlyTo(list, row, col, squares) ==
    /\ Len(list) = Cardinality(squares)
    /\ { <<list[k].end_row, list[k].end_col>> : k \in 1..Len(list) } = squares
    /\ \A k \in 1..Len(list) :
           list[k].start_row = row /\ list[k].start_col = col

PawnsMoveAsDescribed(g) ==
    \A sq \in Squares :
        g.board[sq[1]][sq[2]] = (IF g.white_to_move THEN "wp" ELSE "bp") =>
            ExactlyTo(get_pawn_moves(g, sq[1], sq[2]), sq[1], sq[2],
                      PawnDestinations(g, sq[1], sq[2]))

\* C20: for every pawn of the side to move, as the move generator and
\* square_under_attack (with the turn flipped) call it, get_pawn_moves yields
\* exactly the single push iff the square ahead is empty, the double push iff
\* the pawn is on its starting row and both squares are empty, and each
\* forward-diagonal capture iff the square is on the board and holds an enemy
\* piece; a pawn of the initial board has exactly 2 moves.
C20_PawnMovesExact ==
    /\ PawnsMoveAsDescribed(gs)
    /\ PawnsMoveAsDescribed(Flip(gs))
    /\ Len(move_log) = 0 => Len(get_pawn_moves(gs, 6, 4)) = 2

\* a pawn of the side to move can push once and capture, and another pawn on
\* its starting row is blocked
C20_Witness ==
    \E sq, blocked \in Squares :
        /\ gs.board[sq[1]][sq[2]] = (IF white_to_move THEN "wp" ELSE "bp")
        /\ \E k \in 1..Len(get_pawn_moves(gs, sq[1], sq[2])) :
               get_pawn_moves(gs, sq[1], sq[2])[k].piece_captured # "--"
        /\ \E k \in 1..Len(get_pawn_moves(gs, sq[1], sq[2])) :
               get_pawn_moves(gs, sq[1], sq[2])[k].end_col = sq[2]
        /\ gs.board[blocked[1]][blocked[2]] = (IF white_to_move THEN "wp" ELSE "bp")
        /\ blocked[1] = (IF white_to_move THEN 6 ELSE 1)
        /\ get_pawn_moves(gs, blocked[1], blocked[2]) = << >>

-----------------------------------------------------------------------------
(* C19 *)

\* the state after square_under_attack or in_check returns is the state of
\* the call: the turn, the board, both king squares, the history and the flags
QueryKeepsState(g) ==
    LET after == after_square_under_attack(g)
    IN  /\ after.white_to_move = g.white_to_move
        /\ after.board = g.board
        /\ after.white_king_location = g.white_king_location
        /\ after.black_king_location = g.black_king_location
        /\ after.move_log = g.move_log
        /\ after.check_mate = g.check_mate
        /\ after.stale_mate = g.stale_mate

QueryKeepsStateAfterEach(all) ==
    \A k \in 1..Len(all) : QueryKeepsState(Flip(make_move(gs, all[k])))

\* C19: square_under_attack(r, c) and in_check() leave the whole game state
\* as it was before the call, whoever is to move: white_to_move is flipped
\* exactly twice, and the board, the king locations, move_log and the terminal
\* flags are not written.  Checked where a caller may ask between operations
\* and where the legality filter asks after each candidate.
C19_AttackQueryKeepsState ==
    /\ QueryKeepsState(gs)
    /\ QueryKeepsState(Flip(gs))
    /\ AfterValidMoves => QueryKeepsStateAfterEach(get_all_possible_moves(gs))

\* the query has answered "attacked" for the black king with Black to move,
\* and Black is still to move
C19_Witness ==
    /\ AfterValidMoves
    /\ ~white_to_move
    /\ square_under_attack(gs, black_king_location[1], black_king_location[2])
    /\ ~after_square_under_attack(gs).white_to_move

-----------------------------------------------------------------------------
(* C21 *)

Own(g) == IF g.white_to_move THEN WhitePieces ELSE BlackPieces

\* the squares a sliding piece of the side to move on (row, col) reaches along
\* the given directions: every square of a run of empty squares from the
\* origin, and the enemy-occupied square that ends the run; nothing at or
\* behind a piece of its own side, nothing beyond the edge
SlideDestinations(g, row, col, dirs) ==
    { sq \in Squares :
        \E d \in dirs : \E i \in 1..7 :
            /\ sq = <<row + i * d[1], col + i * d[2]>>
            /\ g.board[sq[1]][sq[2]] \notin Own(g)
            /\ \A j \in 1..(i - 1) :
                   PieceAt(g.board, row + j * d[1], col + j * d[2]) = "--" }

AsSet(list) == { list[k] : k \in 1..Len(list) }

\* the rook and bishop generators from the square of every rook, bishop and
\* queen of the side to move, and the queen generator from every queen
SlidersMoveAsDescribed(g) ==
    \A sq \in Squares :
        /\ g.board[sq[1]][sq[2]] \in Own(g) /\ Kind(g.board[sq[1]][sq[2]]) \in {"R", "B", "Q"} =>
               /\ ExactlyTo(get_rook_moves(g, sq[1], sq[2]), sq[1], sq[2],
                            SlideDestinations(g, sq[1], sq[2], Straight))
               /\ ExactlyTo(get_bishop_moves(g, sq[1], sq[2]), sq[1], sq[2],
                            SlideDestinations(g, sq[1], sq[2], Diagonal))
        /\ g.board[sq[1]][sq[2]] \in Own(g) /\ Kind(g.board[sq[1]][sq[2]]) = "Q" =>
               /\ AsSet(get_queen_moves(g, sq[1], sq[2])) =
                      AsSet(get_rook_moves(g, sq[1], sq[2])) \cup
                      AsSet(get_bishop_moves(g, sq[1], sq[2]))
               /\ ExactlyTo(get_queen_moves(g, sq[1], sq[2]), sq[1], sq[2],
                            SlideDestinations(g, sq[1], sq[2], Straight \cup Diagonal))

\* C21: along each of its four directions get_rook_moves (orthogonal) and
\* get_bishop_moves (diagonal) yield every consecutive empty square, then the
\* first enemy-occupied square if any, and nothing at or beyond a square of
\* the mover's own side or the edge; get_queen_moves yields exactly the union
\* of the two from the same origin; the rook on (7,0) and the bishop on (7,2)
\* of the initial board have no move.
C21_SlidersStopAtFirstPiece ==
    /\ SlidersMoveAsDescribed(gs)
    /\ SlidersMoveAsDescribed(Flip(gs))
    /\ Len(move_log) = 0 => /\ get_rook_moves(gs, 7, 0) = << >>
                            /\ get_bishop_moves(gs, 7, 2) = << >>

\* a queen of the side to move reaches an empty square two or more steps away,
\* captures at the end of one line and is stopped by its own side on another
C21_Witness ==
    \E sq \in Squares :
        /\ gs.board[sq[1]][sq[2]] = (IF white_to_move THEN "wQ" ELSE "bQ")
        /\ \E d \in Straight \cup Diagonal :
               PieceAt(board, sq[1] + d[1], sq[2] + d[2]) \in Own(gs)
        /\ \E k \in 1..Len(get_queen_moves(gs, sq[1], sq[2])) :
               get_queen_moves(gs, sq[1], sq[2])[k].piece_captured # "--"
        /\ \E k \in 1..Len(get_queen_moves(gs, sq[1], sq[2])) :
               /\ get_queen_moves(gs, sq[1], sq[2])[k].piece_captured = "--"
               /\ get_queen_moves(gs, sq[1], sq[2])[k].end_row - sq[1] \notin {-1, 0, 1}

-----------------------------------------------------------------------------
(* C22 *)

\* the targets of the eight jumps from (row, col) that are on the board and
\* not occupied by the side to move
JumpDestinations(g, row, col) ==
    { sq \in Squares :
        /\ \E j \in Jumps : sq = <<row + j[1], col + j[2]>>
        /\ g.board[sq[1]][sq[2]] \notin Own(g) }

KnightsMoveAsDescribed(g) ==
    \A sq \in Squares :
        g.board[sq[1]][sq[2]] = (IF g.white_to_move THEN "wN" ELSE "bN") =>
            ExactlyTo(get_knight_moves(g, sq[1], sq[2]), sq[1], sq[2],
                      JumpDestinations(g, sq[1], sq[2]))

\* C22: for every knight of the side to move get_knight_moves yields exactly
\* one move for each of the eight fixed-offset jumps whose target is on the
\* board and not occupied by the mover's own side, and no other move; the
\* knight on (7,1) of the initial board has exactly 2 moves.
C22_KnightJumpsExact ==
    /\ KnightsMoveAsDescribed(gs)
    /\ KnightsMoveAsDescribed(Flip(gs))
    /\ Len(move_log) = 0 => Len(get_knight_moves(gs, 7, 1)) = 2

\* a knight of the side to move has a jump off the board, a jump onto its own
\* side, a jump to an empty square and a capture
C22_Witness ==
    \E sq \in Squares :
        /\ gs.board[sq[1]][sq[2]] = (IF white_to_move THEN "wN" ELSE "bN")
        /\ \E j \in Jumps : ~OnBoard(sq[1] + j[1], sq[2] + j[2])
        /\ \E j \in Jumps : PieceAt(board, sq[1] + j[1], sq[2] + j[2]) \in Own(gs)
        /\ \E k \in 1..Len(get_knight_moves(gs, sq[1], sq[2])) :
               get_knight_moves(gs, sq[1], sq[2])[k].piece_captured = "--"
        /\ \E k \in 1..Len(get_knight_moves(gs, sq[1], sq[2])) :
               get_knight_moves(gs, sq[1], sq[2])[k].piece_captured # "--"

-----------------------------------------------------------------------------
(* C23 *)

\* the move goes from a piece of the side to move in g to another square of
\* the board that is empty or held by the other side, and records the
\* contents of the two squares
WellFormedIn(g, m) ==
    /\ OnBoard(m.start_row, m.start_col)
    /\ OnBoard(m.end_row, m.end_col)
    /\ <<m.start_row, m.start_col>> # <<m.end_row, m.end_col>>
    /\ PieceAt(g.board, m.start_row, m.start_col) \in Own(g)
    /\ PieceAt(g.board, m.end_row, m.end_col) \notin Own(g)
    /\ m.piece_moved = PieceAt(g.board, m.start_row, m.start_col)
    /\ m.piece_captured = PieceAt(g.board, m.end_row, m.end_col)

EachWellFormedIn(g, list) == \A k \in 1..Len(list) : WellFormedIn(g, list[k])

HasCapture(list) == \E k \in 1..Len(list) : list[k].piece_captured # "--"

\* C23: every move of get_all_possible_moves() starts on a square holding a
\* piece of the side to move, ends on a different square of the board that is
\* empty or holds an enemy piece, and carries as piece_moved / piece_captured
\* the contents of those squares; so pieces of the side not to move and empty
\* squares generate no move.  Checked for both values of the turn flag.
C23_PseudoLegalMovesWellFormed ==
    /\ EachWellFormedIn(gs, get_all_possible_moves(gs))
    /\ EachWellFormedIn(Flip(gs), get_all_possible_moves(Flip(gs)))

\* Black is to move and the list holds a capture
C23_Witness ==
    /\ ~white_to_move
    /\ last_call = "make_move"
    /\ HasCapture(get_all_possible_moves(gs))

-----------------------------------------------------------------------------
(* C24 *)

\* the index pairs get_pawn_moves(row, col) forms on the board of g: the
\* square ahead, the second square ahead behind the tests "square ahead empty"
\* and "row == 6" / "row == 1", and each forward diagonal behind its column test
PawnReads(g, row, col) ==
    LET dir == IF g.white_to_move THEN -1 ELSE 1
    IN  { <<row + dir, col>> }
        \cup (IF PieceAt(g.board, row + dir, col) = "--" /\ row = PawnHomeRow(g)
              THEN { <<row + 2 * dir, col>> } ELSE {})
        \cup (IF col - 1 >= 0 THEN { <<row + dir, col - 1>> } ELSE {})
        \cup (IF col + 1 <= 7 THEN { <<row + dir, col + 1>> } ELSE {})

\* the index pairs the pawn generator forms for the pawns of the side to move
PawnReadsOfTurn(g) ==
    UNION { PawnReads(g, sq[1], sq[2]) :
              sq \in { s \in Squares :
                         g.board[s[1]][s[2]] = (IF g.white_to_move THEN "wp" ELSE "bp") } }

NoPawnOnLastRow(b) ==
    \A col \in 0..7 : b[0][col] # "wp" /\ b[7][col] # "bp"

\* generation for either side on the board of g stays inside the board
GenerationInBounds(g) ==
    /\ NoPawnOnLastRow(g.board)
    /\ PawnReadsOfTurn(g) \subseteq Squares
    /\ PawnReadsOfTurn(Flip(g)) \subseteq Squares

GenerationInBoundsAfterEach(all) ==
    \A k \in 1..Len(all) : GenerationInBounds(make_move(gs, all[k]))

\* C24: in every state of legal play (undo of promotions included), and in
\* every position the legality filter generates moves for, get_pawn_moves forms
\* no board index outside 0..7: no white pawn stands on row 0 and no black pawn
\* on row 7, and the second square ahead is read only from row 6 (white) or
\* row 1 (black).  The other generators test the bounds before they index.
C24_GenerationStaysOnBoard ==
    /\ GenerationInBounds(gs)
    /\ AfterValidMoves => GenerationInBoundsAfterEach(get_all_possible_moves(gs))

\* after an undo a white pawn stands one step from row 0 with the square ahead
\* free: the promotion is tried by the filter, made, and undone
C24_Witness ==
    /\ last_call = "undo_move"
    /\ white_to_move
    /\ Len(move_log) = Len(EndGame)
    /\ \E col \in 0..7 : board[1][col] = "wp" /\ board[0][col] = "--"

-----------------------------------------------------------------------------
(* C25 *)

\* get_valid_moves() has not been called since the game was created
NotYetListed == Len(move_log) = 0 /\ ~listed

\* in_check() and square_under_attack() return with the flags they found
QueryKeepsFlags ==
    /\ after_square_under_attack(gs).check_mate = check_mate
    /\ after_square_under_attack(gs).stale_mate = stale_mate

\* C25: check_mate and stale_mate are written only by get_valid_moves():
\* make_move, undo_move, in_check and square_under_attack leave them as they
\* are.  So both are false as long as get_valid_moves has not been called, and
\* after a make_move or an undo_move they still hold what the last
\* get_valid_moves computed, for the position before.
C25_FlagsWrittenOnlyByValidMoves ==
    /\ [](QueryKeepsFlags /\ (NotYetListed => ~check_mate /\ ~stale_mate))
    /\ [][last_call' \in {"make_move", "undo_move"} =>
              check_mate' = check_mate /\ stale_mate' = stale_mate]_vars

\* an undo has left a checkmate position and check_mate is still true, for a
\* position that has legal moves
C25_Witness ==
    /\ last_call = "undo_move"
    /\ check_mate
    /\ Len(move_log) = Len(EndGame)
    /\ Continues(EndGame)

-----------------------------------------------------------------------------
(* C27 *)

ParityHolds(g) == g.white_to_move <=> Len(g.move_log) % 2 = 0

\* C27: between operations white_to_move is true iff len(move_log) is even:
\* make_move flips the turn and appends, undo_move pops and flips or does
\* neither, and the flips inside get_valid_moves and square_under_attack
\* cancel before they return.  The moves made need not be legal ones.
C27_TurnMatchesLogParity ==
    /\ ParityHolds(gs)
    /\ ParityHolds(after_square_under_attack(gs))
    /\ ParityHolds(undo_move(gs))
    /\ \A start_sq, end_sq \in ClickSquares :
           ParityHolds(make_move(gs, Move(start_sq, end_sq, board)))

\* get_valid_moves has returned, with candidates discarded, at an odd length
\* of the history with Black to move
C27_Witness ==
    /\ AfterValidMoves
    /\ SomeDiscarded
    /\ Len(move_log) % 2 = 1
    /\ ~white_to_move

-----------------------------------------------------------------------------
(* The front end one move before a checkmate *)

\* 1. f3 e5 2. g4 Qh4 mate
FoolsMate == << <<6, 5, 5, 5>>, <<1, 4, 3, 4>>, <<6, 6, 4, 6>>, <<0, 3, 4, 7>> >>

\* the squares clicked: d8 and h4 (the mating move), e2 and e4
MateSquares == { <<0, 3>>, <<4, 7>>, <<6, 4>>, <<4, 4>> }

\* clicks are explored while move_log is shorter than this
MaxMateLog == 4

\* the front end after the click pairs f2-f3, e7-e5 and g2-g4, one click a
\* pass: Black is to move and valid_moves holds Black's legal moves
BeforeMate == get_valid_moves(Play(SubSeq(FoolsMate, 1, 3)))

MateInit ==
    /\ StateIs(BeforeMate.gs)
    /\ valid_moves = BeforeMate.moves
    /\ is_move_made = FALSE
    /\ game_over = FALSE
    /\ selected_square = << >>
    /\ clicked_positions = << >>
    /\ last_call = "new" /\ moves = << >> /\ listed = FALSE

\* MOUSEBUTTONDOWN on square sq
MateClick(sq) ==
    /\ Len(move_log) < MaxMateLog
    /\ Len(clicked_positions) <= MaxClicked
    /\ MouseButtonDown(sq)

MateNext ==
    \/ \E sq \in MateSquares : MateClick(sq)
    \/ KeyZ
    \/ KeyR
    \/ EndPass

MateSpec == MateInit /\ [][MateNext]_vars

-----------------------------------------------------------------------------
(* C26 *)

\* C26: at the end of every pass of the loop game_over is true only if the
\* engine state has check_mate or stale_mate true, so that after a restart or
\* an undo out of a finished game clicks are handled again.  A pass ends with
\* is_move_made false, and a state with is_move_made false and game_over true
\* is left as it is by the end of a pass without events.
C26_GameOverOnlyWhileTerminal ==
    (~is_move_made /\ game_over) => (check_mate \/ stale_mate)

====
